---- MODULE Spec2Model ----
(***************************************************************************)
(* Model of the exploratory-analysis page of the Arizona SVI dashboard     *)
(* (src/ziyan_eda_arizona.py): the quartile summary of one metric,         *)
(* the IQR high-outlier rule, the quartile bucket classifier and the page  *)
(* that strings them together.                                             *)
(*                                                                         *)
(* Numbers.  A metric value is an integer.  Every derived statistic        *)
(* (median, quartile, min, max, cutoff) is kept in units of 1/Unit, so the *)
(* linear interpolation of the 25th/75th percentile and the factor 1.5 of  *)
(* the IQR rule are exact integer arithmetic.  A missing value is NaN.     *)
(***************************************************************************)
EXTENDS Integers, Sequences, FiniteSets, TLC

\* ---------------------------------------------------------------- bounds
MaxRows == 4
MaxNeg == 1
MaxVal == 2
\* MaxCols: metric columns of a loaded table, where they vary.
\* MaxResp: tokens of a response of the completion endpoint.
MaxCols == 2
MaxResp == 4
\* MaxMerged, MaxSvi: rows of the two warehouse tables; MaxCounty: counties.
MaxMerged == 2
MaxSvi == 2
MaxCounty == 2

\* ------------------------------------------------------------- constants
NaN == -999999          \* np.nan / a missing cell
Unit == 8               \* statistics are stored as multiples of 1/8
RatioLow == 1           \* 1.0 < r
RatioHigh == 10         \* r <= 10.0
TopN == 3               \* head(3) / tail(3)

ValueSet == ((-MaxNeg)..MaxVal) \cup {RatioHigh, RatioHigh + 1}
CellSet == ValueSet \cup {NaN}

\* ------------------------------------------------------------ the tables
\* A table (DataFrame restricted to "county" and the selected metric): row i
\* carries index label i, a county identifier (always present, and here equal
\* to the label) and an optional value.
MkTable(f) == [i \in DOMAIN f |-> [county |-> i, val |-> f[i]]]

\* The tables the functions are called with on their own.
Tables == UNION {{MkTable(f) : f \in [1..n -> CellSet]} : n \in 0..MaxRows}

\* The tables the page loads.
PageTables ==
  UNION {{MkTable(f) : f \in [1..n -> ((-MaxNeg)..MaxVal) \cup {NaN}]} : n \in 0..MaxRows}

\* The worked examples of the documentation, a near-constant column of
\* five rows (Q1 = Q3 with one row below and one row above), and tables of
\* six rows with a value, with and without ties and a missing value.
ExampleTables ==
  { MkTable(<<10, 20, 30, 40, 1000>>),
    MkTable(<<5, 5, 5>>),
    MkTable(<<7>>),
    MkTable(<<NaN, NaN>>),
    MkTable(<<0, 1, 1, 1, 2>>),
    MkTable(<<6, 5, 4, 3, 2, 1>>),
    MkTable(<<2, 1, NaN, 1, 2, 3, 3>>) }

\* Small tables, for the runs in which the columns and the metric vary.
CatalogTables ==
  UNION {{MkTable(f) : f \in [1..n -> {NaN, 0, 1}]} : n \in 0..2}

\* ------------------------------------------------------- pandas helpers
isna(x) == x = NaN

\* x > y on cells: a comparison with NaN is False.
Gt(x, y) == ~isna(x) /\ ~isna(y) /\ x > y

\* dropna keeping every row.
dropna_none(t) == [i \in DOMAIN t |-> i]

\* df[col].dropna(): the index labels of the rows that have a value.
dropna(t) == SelectSeq([i \in DOMAIN t |-> i], LAMBDA i : ~isna(t[i].val))

Range(s) == {s[i] : i \in DOMAIN s}

RECURSIVE Insert(_, _)
Insert(x, s) ==
  IF s = <<>> THEN <<x>>
  ELSE IF x <= Head(s) THEN <<x>> \o s
  ELSE <<Head(s)>> \o Insert(x, Tail(s))

RECURSIVE SortAsc(_)
\* The values of a sequence in ascending order.
SortAsc(s) == IF s = <<>> THEN <<>> ELSE Insert(Head(s), SortAsc(Tail(s)))

\* The non-missing values of the table, ascending.
SortedValues(t) == SortAsc([k \in DOMAIN dropna(t) |-> t[dropna(t)[k]].val])

\* Series.quantile(k/4), linear interpolation, in units of 1/Unit, of an
\* ascending non-empty sequence: virtual index (n-1)*k/4 (0-based), then
\* a + (b - a) * fraction.
\* The quantile of no values is NaN.
quantile(sv, k) ==
  IF sv = <<>> THEN NaN
  ELSE LET n    == Len(sv)
           pos4 == (n - 1) * k
           lo   == pos4 \div 4
           r    == pos4 % 4
           a    == sv[lo + 1]
           b    == IF r = 0 THEN a ELSE sv[lo + 2]
       IN  Unit * a + (b - a) * r * (Unit \div 4)

\* The upper of the two middle values instead of their mean.
median_upper(sv) ==
  LET n == Len(sv)
  IN  IF n = 0 THEN NaN ELSE Unit * sv[n \div 2 + 1]

\* Series.median(): the middle value, or the mean of the two middle values.
median(sv) ==
  LET n == Len(sv)
  IN  IF n = 0 THEN NaN
      ELSE IF n % 2 = 1 THEN Unit * sv[(n + 1) \div 2]
      ELSE (Unit * (sv[n \div 2] + sv[n \div 2 + 1])) \div 2

\* Series.min() / Series.max(), in units of 1/Unit.
min(sv) == IF sv = <<>> THEN NaN ELSE Unit * sv[1]
max(sv) == IF sv = <<>> THEN NaN ELSE Unit * sv[Len(sv)]

\* ------------------------------------------------------------ iqr_outliers
\* iqr_outliers with >= in place of > in the row filter.
iqr_outliers_ge(t) ==
  LET s == dropna(t)
  IN  IF s = <<>> THEN [q1 |-> <<>>, q3 |-> <<>>, cutoff |-> NaN, outliers |-> <<>>]
      ELSE LET sv == SortedValues(t)
               a1 == quantile(sv, 1)
               a3 == quantile(sv, 3)
               co == a3 + (3 * (a3 - a1)) \div 2
           IN  [q1 |-> <<a1>>, q3 |-> <<a3>>, cutoff |-> co,
                outliers |-> SelectSeq([i \in DOMAIN t |-> i],
                               LAMBDA i : ~isna(t[i].val) /\ Unit * t[i].val >= co)]

\* iqr_outliers returning the whole table, not df.head(0), when there is no
\* value.
iqr_outliers_all(t) ==
  LET s == dropna(t)
  IN  IF s = <<>> THEN [q1 |-> <<>>, q3 |-> <<>>, cutoff |-> NaN,
                        outliers |-> [i \in DOMAIN t |-> i]]
      ELSE LET sv == SortedValues(t)
               a1 == quantile(sv, 1)
               a3 == quantile(sv, 3)
               co == a3 + (3 * (a3 - a1)) \div 2
           IN  [q1 |-> <<a1>>, q3 |-> <<a3>>, cutoff |-> co,
                outliers |-> SelectSeq([i \in DOMAIN t |-> i],
                               LAMBDA i : Gt(IF isna(t[i].val) THEN NaN
                                             ELSE Unit * t[i].val, co))]

\* iqr_outliers giving up (NaN, no rows) on a column whose IQR is zero.
iqr_outliers_zero_iqr(t) ==
  LET s == dropna(t)
  IN  IF s = <<>> THEN [q1 |-> <<>>, q3 |-> <<>>, cutoff |-> NaN, outliers |-> <<>>]
      ELSE LET sv == SortedValues(t)
               a1 == quantile(sv, 1)
               a3 == quantile(sv, 3)
               co == a3 + (3 * (a3 - a1)) \div 2
           IN  IF a1 = a3 THEN [q1 |-> <<a1>>, q3 |-> <<a3>>, cutoff |-> NaN,
                                outliers |-> <<>>]
               ELSE [q1 |-> <<a1>>, q3 |-> <<a3>>, cutoff |-> co,
                     outliers |-> SelectSeq([i \in DOMAIN t |-> i],
                                    LAMBDA i : Gt(IF isna(t[i].val) THEN NaN
                                                  ELSE Unit * t[i].val, co))]

\* iqr_outliers taking its quartiles at the lower of the two closest ranks
\* (interpolation "lower") instead of interpolating between them.
iqr_outliers_lower(t) ==
  LET s == dropna(t)
  IN  IF s = <<>> THEN [q1 |-> <<>>, q3 |-> <<>>, cutoff |-> NaN, outliers |-> <<>>]
      ELSE LET sv == SortedValues(t)
               a1 == Unit * sv[((Len(sv) - 1) * 1) \div 4 + 1]
               a3 == Unit * sv[((Len(sv) - 1) * 3) \div 4 + 1]
               co == a3 + (3 * (a3 - a1)) \div 2
           IN  [q1 |-> <<a1>>, q3 |-> <<a3>>, cutoff |-> co,
                outliers |-> SelectSeq([i \in DOMAIN t |-> i],
                               LAMBDA i : Gt(IF isna(t[i].val) THEN NaN
                                             ELSE Unit * t[i].val, co))]

\* iqr_outliers flagging the low tail as well (values below
\* q1 - 1.5 * iqr).
iqr_outliers_two_sided(t) ==
  LET s == dropna(t)
  IN  IF s = <<>> THEN [q1 |-> <<>>, q3 |-> <<>>, cutoff |-> NaN, outliers |-> <<>>]
      ELSE LET sv == SortedValues(t)
               a1 == quantile(sv, 1)
               a3 == quantile(sv, 3)
               co == a3 + (3 * (a3 - a1)) \div 2
               lo == a1 - (3 * (a3 - a1)) \div 2
           IN  [q1 |-> <<a1>>, q3 |-> <<a3>>, cutoff |-> co,
                outliers |-> SelectSeq([i \in DOMAIN t |-> i],
                               LAMBDA i : ~isna(t[i].val) /\
                                          (Unit * t[i].val > co \/ Unit * t[i].val < lo))]

\* Returns the cutoff (NaN when there is no value) and the index labels of
\* the outlier rows, in table order, with the quartiles q1 and q3 it used
\* (None when it returned early).
iqr_outliers(t) ==
  LET s == dropna(t)
  IN  IF s = <<>> THEN [q1 |-> <<>>, q3 |-> <<>>, cutoff |-> NaN, outliers |-> <<>>]
      ELSE LET sv == SortedValues(t)
               a1 == quantile(sv, 1)
               a3 == quantile(sv, 3)
               co == a3 + (3 * (a3 - a1)) \div 2
           IN  [q1 |-> <<a1>>, q3 |-> <<a3>>, cutoff |-> co,
                outliers |-> SelectSeq([i \in DOMAIN t |-> i],
                               LAMBDA i : Gt(IF isna(t[i].val) THEN NaN
                                             ELSE Unit * t[i].val, co))]

\* ------------------------------------------------------------- sort_values
\* sort_values uses an unstable sort: rows with equal values may come out in
\* any order.  SortOrders(t, S, asc) is the set of orderings of the index
\* labels S by value that the sort may produce.
RECURSIVE SortOrders(_, _, _)
SortOrders(t, S, asc) ==
  IF S = {} THEN {<<>>}
  ELSE LET first == {i \in S : \A j \in S :
                       IF asc THEN t[i].val <= t[j].val ELSE t[i].val >= t[j].val}
       IN  UNION {{<<i>> \o rest : rest \in SortOrders(t, S \ {i}, asc)} : i \in first}

\* head taking one row more.
head_more(s, n) == SubSeq(s, 1, IF Len(s) < n + 1 THEN Len(s) ELSE n + 1)

head(s, n) == SubSeq(s, 1, IF Len(s) < n THEN Len(s) ELSE n)

\* tail taking the first n rows.
tail_first(s, n) == SubSeq(s, 1, IF Len(s) < n THEN Len(s) ELSE n)

tail(s, n) == SubSeq(s, IF Len(s) < n THEN 1 ELSE Len(s) - n + 1, Len(s))

\* The rows (county, value) of the table at the given index labels.
Rows(t, idx) == [k \in DOMAIN idx |-> t[idx[k]]]

\* ---------------------------------------------------------- number format
\* Nearest integer to num/den (den > 0), ties to even.
RoundHalfEven(num, den) ==
  LET q == num \div den
      r == num - q * den
  IN  IF 2 * r < den THEN q
      ELSE IF 2 * r > den THEN q + 1
      ELSE IF q % 2 = 0 THEN q ELSE q + 1

\* f"{x:,.1f}" / f"{x:,.2f}" of the number num/den: the number of 1/10 (or
\* 1/100) printed; NaN prints as "nan".
fmt(num, den, places) ==
  IF isna(num) THEN NaN ELSE RoundHalfEven(num * places, den)

\* ------------------------------------------------------------ display items
Write(text) == [kind |-> "write", text |-> text]

NoDataAvailable == "No data available for this variable."
NoDataForVariable == "No data for this variable."
NoStrongOutliers == "No counties appear as strong high outliers on this metric."

None == <<>>

\* ------------------------------------------------------------ the catalog
EDA_VARS ==
  << "hospitals_per_10k", "beds_per_10k", "num_hospitals", "population_total",
     "total_capacity", "mp_pov150_mean", "mp_uninsur_mean", "mp_noveh_mean",
     "e_heat_risk_mean", "max_temp_2022", "e_daypop_mean" >>

\* THEME_VARS with population_total listed under a second theme as well.
THEME_VARS_twice ==
  << [theme |-> "Capacity and access",
      vars  |-> <<"hospitals_per_10k", "beds_per_10k", "num_hospitals",
                  "total_capacity", "population_total">>],
     [theme |-> "Population and daytime presence",
      vars  |-> <<"population_total", "e_daypop_mean">>],
     [theme |-> "Social barriers",
      vars  |-> <<"mp_pov150_mean", "mp_uninsur_mean", "mp_noveh_mean">>],
     [theme |-> "Heat and climate",
      vars  |-> <<"e_heat_risk_mean", "max_temp_2022">>] >>

\* The dict THEME_VARS, in insertion order.
THEME_VARS ==
  << [theme |-> "Capacity and access",
      vars  |-> <<"hospitals_per_10k", "beds_per_10k", "num_hospitals",
                  "total_capacity">>],
     [theme |-> "Population and daytime presence",
      vars  |-> <<"population_total", "e_daypop_mean">>],
     [theme |-> "Social barriers",
      vars  |-> <<"mp_pov150_mean", "mp_uninsur_mean", "mp_noveh_mean">>],
     [theme |-> "Heat and climate",
      vars  |-> <<"e_heat_risk_mean", "max_temp_2022">>] >>

VAR_LABELS ==
  ("hospitals_per_10k" :> "Hospitals per 10k residents") @@
  ("beds_per_10k" :> "Beds per 10k residents") @@
  ("num_hospitals" :> "Number of hospitals") @@
  ("population_total" :> "Total population") @@
  ("total_capacity" :> "Total bed capacity") @@
  ("mp_pov150_mean" :> "Poverty (relative to average)") @@
  ("mp_uninsur_mean" :> "Uninsured (relative to average)") @@
  ("mp_noveh_mean" :> "No-vehicle households (relative to average)") @@
  ("e_heat_risk_mean" :> "Heat risk index") @@
  ("max_temp_2022" :> "Maximum temperature (2022)") @@
  ("e_daypop_mean" :> "Daytime population") @@
  ("is_medical_desert" :> "Medical desert flag")

\* The columns load_eda_data keeps (keep_cols).
KeepCols == <<"county">> \o EDA_VARS \o <<"is_medical_desert">>

\* VAR_LABELS[var]: no fallback for a name without a label.
label_of_strict(v) == IF v \in DOMAIN VAR_LABELS THEN VAR_LABELS[v] ELSE ""

\* VAR_LABELS.get(var, var)
label_of(v) == IF v \in DOMAIN VAR_LABELS THEN VAR_LABELS[v] ELSE v

\* ------------------------------------------------------------ the narrative
WhatGeneric == "County-level summary for the metric shown on the chart."
WhyGeneric ==
  "This metric captures one aspect of county-level risk or capacity that interacts with heat conditions."
ModelGeneric ==
  "- This variable can be included as a county-level feature after appropriate scaling or standardisation."

WhatRelative ==
  "These variables are centred around zero and represent relative vulnerability. Values above 0 mean the county has more of this condition than the reference average; values below 0 mean less than average."

\* Lines 199-230.
what_it_measures(v) ==
  IF v = "hospitals_per_10k" THEN
    "Number of hospitals per 10,000 residents in each county. Higher values mean more facilities relative to population."
  ELSE IF v = "beds_per_10k" THEN
    "Number of hospital beds per 10,000 residents. Higher values indicate greater inpatient capacity per person."
  ELSE IF v = "num_hospitals" THEN "Total count of hospitals in the county."
  ELSE IF v = "population_total" THEN "Estimated resident population in the county."
  ELSE IF v = "total_capacity" THEN
    "Total number of hospital beds across all hospitals in the county."
  ELSE IF v \in {"mp_pov150_mean", "mp_uninsur_mean", "mp_noveh_mean"} THEN WhatRelative
  ELSE IF v = "e_heat_risk_mean" THEN
    "Index summarising average heat risk; higher values mean greater heat exposure."
  ELSE IF v = "max_temp_2022" THEN "Maximum recorded temperature in 2022 for the county."
  ELSE IF v = "e_daypop_mean" THEN
    "Estimated daytime population, including residents plus commuters and visitors present during the day."
  ELSE WhatGeneric

\* Lines 274-330.
why_it_matters(v) ==
  IF v = "hospitals_per_10k" THEN
    "Low values indicate potential gaps in facility access. During extreme heat, residents may face longer travel times and delays before reaching care."
  ELSE IF v = "beds_per_10k" THEN
    "Low bed counts per resident suggest limited capacity to admit patients. Counties with both high heat risk and low beds per 10k may overload quickly."
  ELSE IF v = "num_hospitals" THEN
    "Counties with very few hospitals have little redundancy. If one facility is unavailable, options for residents are limited."
  ELSE IF v = "population_total" THEN
    "High-population counties require more infrastructure. If population is high but hospital access metrics are low, the system may be strained."
  ELSE IF v = "total_capacity" THEN
    "Total bed capacity describes the size of the system. Low-capacity counties may struggle to manage larger numbers of heat-related admissions."
  ELSE IF v = "mp_pov150_mean" THEN
    "Positive values indicate more residents near or below the poverty line than average. Financial constraints can limit access to cooling, transport and timely care."
  ELSE IF v = "mp_uninsur_mean" THEN
    "Positive values indicate more uninsured residents than average. Uninsured individuals often delay care, which can worsen outcomes during heat events."
  ELSE IF v = "mp_noveh_mean" THEN
    "Positive values indicate more households without vehicles than average. These residents may find it harder to reach hospitals when they need urgent care."
  ELSE IF v = "e_heat_risk_mean" THEN
    "Higher scores indicate greater exposure to dangerous heat. Counties combining high heat risk with low capacity or high social barriers are of particular concern."
  ELSE IF v = "max_temp_2022" THEN
    "High maximum temperatures increase physiological stress and can trigger more heat-related illness."
  ELSE IF v = "e_daypop_mean" THEN
    "High daytime population means demand for emergency services may be higher than resident population alone suggests."
  ELSE WhyGeneric

\* The last list of the chain without the daytime population.
modeling_use_short(v) ==
  IF v \in {"hospitals_per_10k", "beds_per_10k", "num_hospitals", "total_capacity"} THEN
    "- These variables summarise health system capacity.\n- In a model predicting heat-related hospitalisations by county, they help explain which counties are more likely to experience strain when demand increases."
  ELSE IF v \in {"mp_pov150_mean", "mp_uninsur_mean", "mp_noveh_mean"} THEN
    "- These variables represent social and economic barriers to care.\n- Using them as features lets the model capture how poverty, insurance and transport affect outcomes, beyond physical capacity alone."
  ELSE IF v \in {"e_heat_risk_mean", "max_temp_2022"} THEN
    "- These are exposure variables that quantify how extreme the heat is.\n- Combined with capacity and vulnerability variables, they help identify counties where high exposure and low access overlap."
  ELSE IF v \in {"population_total"} THEN
    "- These variables describe the size of the population at risk.\n- They can be used as predictors and also for constructing outcome rates (for example, hospitalisations per 10,000 residents)."
  ELSE ModelGeneric

\* Lines 337-364.
modeling_use(v) ==
  IF v \in {"hospitals_per_10k", "beds_per_10k", "num_hospitals", "total_capacity"} THEN
    "- These variables summarise health system capacity.\n- In a model predicting heat-related hospitalisations by county, they help explain which counties are more likely to experience strain when demand increases."
  ELSE IF v \in {"mp_pov150_mean", "mp_uninsur_mean", "mp_noveh_mean"} THEN
    "- These variables represent social and economic barriers to care.\n- Using them as features lets the model capture how poverty, insurance and transport affect outcomes, beyond physical capacity alone."
  ELSE IF v \in {"e_heat_risk_mean", "max_temp_2022"} THEN
    "- These are exposure variables that quantify how extreme the heat is.\n- Combined with capacity and vulnerability variables, they help identify counties where high exposure and low access overlap."
  ELSE IF v \in {"population_total", "e_daypop_mean"} THEN
    "- These variables describe the size of the population at risk.\n- They can be used as predictors and also for constructing outcome rates (for example, hospitalisations per 10,000 residents)."
  ELSE ModelGeneric

\* ------------------------------------------------- interpretation_univariate
\* The ratio window with r < 10.0 in place of r <= 10.0.
max_min_ratio_lt(vmin, vmax) ==
  IF Gt(vmin, 0)
    THEN [divisors |-> <<vmin>>,
          ratio    |-> IF RatioLow * vmin < vmax /\ vmax < RatioHigh * vmin
                         THEN <<vmax, vmin>> ELSE None]
    ELSE [divisors |-> <<>>, ratio |-> None]

\* The ratio window with 1.0 <= r in place of 1.0 < r.
max_min_ratio_from_one(vmin, vmax) ==
  IF Gt(vmin, 0)
    THEN [divisors |-> <<vmin>>,
          ratio    |-> IF RatioLow * vmin <= vmax /\ vmax <= RatioHigh * vmin
                         THEN <<vmax, vmin>> ELSE None]
    ELSE [divisors |-> <<>>, ratio |-> None]

\* Lines 186-190.  The max/min ratio is None or the pair <<vmax, vmin>>
\* standing for vmax / vmin; divisors lists the divisor of every division
\* the step performs.
max_min_ratio(vmin, vmax) ==
  IF Gt(vmin, 0)
    THEN [divisors |-> <<vmin>>,
          ratio    |-> IF RatioLow * vmin < vmax /\ vmax <= RatioHigh * vmin
                         THEN <<vmax, vmin>> ELSE None]
    ELSE [divisors |-> <<>>, ratio |-> None]

\* Lines 179-364, the part after the empty check.  ord is the order
\* s.sort_values() produced.
interpretation_body(v, t, ord) ==
  LET sv     == SortedValues(t)
      label  == label_of(v)
      med    == median(sv)
      a1     == quantile(sv, 1)
      a3     == quantile(sv, 3)
      vmin   == min(sv)
      vmax   == max(sv)
      mm     == max_min_ratio(vmin, vmax)
      bottom == head(ord, TopN)
      top    == tail(ord, TopN)
      st     == [median |-> med, q1 |-> a1, q3 |-> a3,
                 vmin |-> vmin, vmax |-> vmax, ratio |-> mm.ratio,
                 divisors |-> mm.divisors,
                 bottom3 |-> bottom, top3 |-> top]
      bullets == [kind   |-> "bullets",
                  label  |-> label,
                  median |-> fmt(med, Unit, 10),
                  q1     |-> fmt(a1, Unit, 10),
                  q3     |-> fmt(a3, Unit, 10),
                  vmin   |-> fmt(vmin, Unit, 10),
                  vmax   |-> fmt(vmax, Unit, 10),
                  ratio  |-> IF mm.ratio = None THEN None
                             ELSE <<fmt(mm.ratio[1], mm.ratio[2], 10)>>]
  IN  [stats |-> <<st>>,
       shown |-> << [kind |-> "what_it_measures", text |-> what_it_measures(v)],
                    bullets,
                    [kind |-> "top3", label |-> label, rows |-> Rows(t, top)],
                    [kind |-> "bottom3", label |-> label, rows |-> Rows(t, bottom)],
                    [kind |-> "why_it_matters", text |-> why_it_matters(v)],
                    [kind |-> "modeling_use", text |-> modeling_use(v)] >>]

\* interpretation_univariate without the empty check of lines 175-177.
interpretation_univariate_unchecked(v, t, ord) == interpretation_body(v, t, ord)

\* The result holds the statistics the function computed (stats = None when
\* it returned early) and the items it displayed, in order.
interpretation_univariate(v, t, ord) ==
  IF dropna(t) = <<>>
    THEN [stats |-> None, shown |-> <<Write(NoDataAvailable)>>]
    ELSE interpretation_body(v, t, ord)

\* ------------------------------------------------------------------ bucket
\* bucket with > in place of >= in the first test.
bucket_gt(x, b1, b3) ==
  IF Unit * x > b3 THEN "Top 25%"
  ELSE IF Unit * x <= b1 THEN "Bottom 25%"
  ELSE "Middle"

\* bucket testing the bottom quartile first.
bucket_bottom_first(x, b1, b3) ==
  IF Unit * x <= b1 THEN "Bottom 25%"
  ELSE IF Unit * x >= b3 THEN "Top 25%"
  ELSE "Middle"

bucket(x, b1, b3) ==
  IF Unit * x >= b3 THEN "Top 25%"
  ELSE IF Unit * x <= b1 THEN "Bottom 25%"
  ELSE "Middle"

\* ----------------------------------------------------------- load_eda_data
\* Lines 20-33.
MERGED_COLUMN_MAP ==
  ("county" :> "county") @@
  ("HOSPITALS_PER_10K" :> "hospitals_per_10k") @@
  ("BEDS_PER_10K" :> "beds_per_10k") @@
  ("NUM_HOSPITALS" :> "num_hospitals") @@
  ("POPULATION_TOTAL" :> "population_total") @@
  ("TOTAL_CAPACITY" :> "total_capacity") @@
  ("MAX_TEMP_2022" :> "max_temp_2022") @@
  ("E_HEAT_RISK_MEAN" :> "e_heat_risk_mean") @@
  ("MP_NOVEH_MEAN" :> "mp_noveh_mean") @@
  ("MP_POV150_MEAN" :> "mp_pov150_mean") @@
  ("MP_UNINSUR_MEAN" :> "mp_uninsur_mean") @@
  ("IS_MEDICAL_DESERT" :> "is_medical_desert")

\* Lines 108-113: merged.rename(columns=rename_dict), on the column names.
rename(cols) ==
  {IF c \in DOMAIN MERGED_COLUMN_MAP THEN MERGED_COLUMN_MAP[c] ELSE c : c \in cols}

Counties == 1..MaxCounty

\* The merged warehouse table: its column names and the county of each row
\* (read only when there is a county column).
MergedColumnSets ==
  { {},
    {"county"},
    {"COUNTY", "HOSPITALS_PER_10K"},
    {"county", "HOSPITALS_PER_10K", "FIPS"},
    {"county", "IS_MEDICAL_DESERT", "e_daypop_mean"} }

MergedTables ==
  {[columns |-> c, rows |-> r] :
     c \in MergedColumnSets,
     r \in UNION {[1..n -> Counties] : n \in 0..MaxMerged}}

\* The second warehouse table: its column names, and county and daytime
\* population of each row.
SviColumnSets ==
  { {"county", "E_DAYPOP_MEAN"},
    {"county"},
    {"COUNTY", "E_DAYPOP_MEAN"} }

SviTables ==
  {[columns |-> c, rows |-> r] :
     c \in SviColumnSets,
     r \in UNION {[1..n -> [county : Counties, val : {0, 1}]] : n \in 0..MaxSvi}}

\* Line 125: df.merge(svi_small, on="county", how="left").  Every row of
\* the left table, in order, once for each row of the right table with the
\* same county, or once with a missing value when there is none.
RECURSIVE left_merge(_, _)
left_merge(left, right) ==
  IF left = <<>> THEN <<>>
  ELSE LET c == Head(left).county
           m == SelectSeq(right, LAMBDA x : x.county = c)
       IN  (IF m = <<>>
              THEN <<[county |-> c, val |-> NaN]>>
              ELSE [k \in DOMAIN m |-> [county |-> c, val |-> m[k].val]])
           \o left_merge(Tail(left), right)

\* The column names after the merge: a name on both sides gets suffixes.
merge_columns(cols) ==
  IF "e_daypop_mean" \in cols
    THEN (cols \ {"e_daypop_mean"}) \cup {"e_daypop_mean_x", "e_daypop_mean_y"}
    ELSE cols \cup {"e_daypop_mean"}

\* ------------------------------------------------------- streamlit_app.py
\* A text is a sequence of tokens: the four tags, a letter and a blank.
OpenAnswer == "<final_answer>"
CloseAnswer == "</final_answer>"
OpenThink == "<think>"
CloseThink == "</think>"

Tokens == {OpenAnswer, CloseAnswer, OpenThink, CloseThink, "a", " "}

\* The responses of the completion endpoint.
Responses == UNION {[1..n -> Tokens] : n \in 0..MaxResp}

\* sep in text
Contains(text, sep) == \E i \in DOMAIN text : text[i] = sep

\* text.split(sep): the pieces of text between the occurrences of sep.
RECURSIVE split(_, _)
split(text, sep) ==
  IF ~Contains(text, sep) THEN <<text>>
  ELSE LET i == CHOOSE x \in DOMAIN text :
                  text[x] = sep /\ \A y \in 1..(x - 1) : text[y] # sep
       IN  <<SubSeq(text, 1, i - 1)>> \o split(SubSeq(text, i + 1, Len(text)), sep)

\* text.strip(): text without its leading and trailing blanks.
RECURSIVE strip(_)
strip(text) ==
  IF text = <<>> THEN text
  ELSE IF Head(text) = " " THEN strip(Tail(text))
  ELSE IF text[Len(text)] = " " THEN strip(SubSeq(text, 1, Len(text) - 1))
  ELSE text

\* Lines 9-14.
extract_final_answer(text) ==
  IF Contains(text, OpenAnswer)
    THEN strip(split(split(text, OpenAnswer)[2], CloseAnswer)[1])
  ELSE IF Contains(text, OpenThink)
    THEN LET parts == split(text, CloseThink) IN strip(parts[Len(parts)])
  ELSE text

\* The questions typed into the text area, and the summaries of the table.
Questions == {"", " ", "q"}
Summaries == {"{}", "{count}"}

\* Lines 394-400: the prompt holds the summary and the question.
prompt_of(s_json, question) == [summary_json |-> s_json, user_question |-> question]

\* ------------------------------------------------------------------- state
VARIABLES
  pc,        \* position in render_exploratory_eda ("start", "loaded",
             \* "selected", "charted", "interpreted", "done"; "no_table",
             \* "no_variables" and "no_data" after the early returns), or
             \* "call" and then the function called
  df,        \* the loaded table
  q1, q3,    \* the page's quartiles (None before they are computed)
  df_bar,    \* the ranking: rows with a value, highest first, with Group
  summary,   \* what interpretation_univariate computed
  cutoff,    \* result of iqr_outliers
  outliers,
  iqr_q,     \* the q1 and q3 of the last iqr_outliers call
  columns,   \* the column names of the loaded table
  theme_var_map, \* the themes offered, each with the metrics offered
  theme,     \* the theme chosen ("" before the choice)
  var,       \* the metric chosen, or the var argument of a direct call
  screen,    \* the items displayed so far, in order
  summary_json,  \* AI Assistant page: the summary statistics as text
  user_question, \* the content of the text area
  pressed,       \* whether the button was pressed in this run
  prompt_text,   \* the prompt (None before it is built)
  sent,          \* the prompts sent to the completion endpoint, in order
  response,      \* what the endpoint returned (None before it returns)
  clean,         \* the answer extracted (None before the extraction)
  merged,        \* load_eda_data: the merged warehouse table (None when it
                 \* cannot be read)
  svi_clean      \* the second warehouse table (None when it cannot be read)

selection == <<theme_var_map, theme, var>>

assistant == <<summary_json, user_question, pressed, prompt_text, sent,
               response, clean>>

warehouse == <<merged, svi_clean>>

eda == <<df, q1, q3, df_bar, summary, cutoff, outliers, iqr_q, columns,
         theme_var_map, theme, var>>

vars == <<pc, df, q1, q3, df_bar, summary, cutoff, outliers, iqr_q, columns,
          theme_var_map, theme, var, screen, summary_json, user_question,
          pressed, prompt_text, sent, response, clean, merged, svi_clean>>

Blank ==
  /\ q1 = None
  /\ q3 = None
  /\ df_bar = <<>>
  /\ summary = None
  /\ cutoff = None
  /\ outliers = <<>>
  /\ iqr_q = [q1 |-> None, q3 |-> None]
  /\ screen = <<>>
  /\ summary_json = ""
  /\ user_question = ""
  /\ pressed = FALSE
  /\ prompt_text = None
  /\ sent = <<>>
  /\ response = None
  /\ clean = None
  /\ merged = None
  /\ svi_clean = None

\* ------------------------------------------------- render_exploratory_eda
InitPage ==
  /\ pc = "start"
  /\ df = <<>>
  /\ columns = {}
  /\ theme_var_map = <<>>
  /\ theme = ""
  /\ var = ""
  /\ Blank

\* The column sets of the tables load_eda_data returns: "county" and up to
\* MaxCols of the names it keeps.
ColumnSets ==
  {{"county"} \cup c : c \in {x \in SUBSET (Range(KeepCols) \ {"county"}) :
                                Cardinality(x) <= MaxCols}}

\* A table with one metric.
PageColumnSets == {{"county", "hospitals_per_10k"}}

\* Lines 382-386: load_eda_data() returns a table, or None after an error.
\* T and C are the tables and column sets the warehouse may hold; df is the
\* table restricted to "county" and the metric that will be selected (all
\* missing when the table has no metric to select).
LoadFrom(T, C) ==
  /\ pc = "start"
  /\ \/ /\ \E t \in T, c \in C :
             /\ (c \cap Range(EDA_VARS) = {}) => \A i \in DOMAIN t : isna(t[i].val)
             /\ df' = t
             /\ columns' = c
        /\ pc' = "loaded"
        /\ screen' = screen
     \/ /\ df' = df
        /\ columns' = columns
        /\ pc' = "no_table"
        /\ screen' = screen \o <<[kind |-> "error"]>>
  /\ UNCHANGED <<q1, q3, df_bar, summary, cutoff, outliers, iqr_q, selection, assistant, warehouse>>

LoadData == LoadFrom(PageTables \cup ExampleTables, PageColumnSets)

LoadCatalogData == LoadFrom(CatalogTables, ColumnSets)

\* theme_var_map without line 397: themes with no available metric stay.
theme_var_map_unfiltered(c) ==
  LET available_vars == SelectSeq(EDA_VARS, LAMBDA v : v \in c)
  IN  [k \in DOMAIN THEME_VARS |->
         [theme |-> THEME_VARS[k].theme,
          vars  |-> SelectSeq(THEME_VARS[k].vars,
                              LAMBDA v : v \in Range(available_vars))]]

\* Lines 392-397.
theme_var_map_of(c) ==
  LET available_vars == SelectSeq(EDA_VARS, LAMBDA v : v \in c)
      all == [k \in DOMAIN THEME_VARS |->
                [theme |-> THEME_VARS[k].theme,
                 vars  |-> SelectSeq(THEME_VARS[k].vars,
                                     LAMBDA v : v \in Range(available_vars))]]
  IN  SelectSeq(all, LAMBDA e : e.vars # <<>>)

NoVariablesFound == "No variables found. Check EDA_VARS and column mappings."

\* Lines 392-413: the themes and metrics offered, and the user's choice.
ChooseMetric ==
  /\ pc = "loaded"
  /\ LET m == theme_var_map_of(columns)
     IN  /\ theme_var_map' = m
         /\ IF m = <<>>
              THEN /\ screen' = screen \o <<[kind |-> "error", text |-> NoVariablesFound]>>
                   /\ pc' = "no_variables"
                   /\ UNCHANGED <<theme, var>>
              ELSE /\ \E k \in DOMAIN m : \E j \in DOMAIN m[k].vars :
                        /\ theme' = m[k].theme
                        /\ var' = m[k].vars[j]
                   /\ pc' = "selected"
                   /\ screen' = screen
  /\ UNCHANGED <<df, columns, q1, q3, df_bar, summary, cutoff, outliers, iqr_q, assistant, warehouse>>

\* Lines 419-470: the empty check, the quartiles, the ranking and its chart.
RankingChart ==
  /\ pc = "selected"
  /\ LET s_non == dropna(df)
     IN  IF s_non = <<>>
           THEN /\ screen' = screen \o <<Write(NoDataForVariable)>>
                /\ pc' = "no_data"
                /\ UNCHANGED <<q1, q3, df_bar>>
           ELSE LET b1 == quantile(SortedValues(df), 1)
                    b3 == quantile(SortedValues(df), 3)
                IN  /\ q1' = <<b1>>
                    /\ q3' = <<b3>>
                    /\ \E ord \in SortOrders(df, Range(s_non), FALSE) :
                         LET bar == [k \in DOMAIN ord |->
                                       [county |-> df[ord[k]].county,
                                        val    |-> df[ord[k]].val,
                                        Group  |-> bucket(df[ord[k]].val, b1, b3)]]
                         IN  /\ df_bar' = bar
                             /\ screen' = screen \o
                                  << [kind |-> "chart", marks |-> Range(bar)] >>
                    /\ pc' = "charted"
  /\ UNCHANGED <<df, summary, cutoff, outliers, iqr_q, columns, selection, assistant, warehouse>>

\* Line 476.
Interpretation ==
  /\ pc = "charted"
  /\ \E ord \in SortOrders(df, Range(dropna(df)), TRUE) :
       /\ summary' = interpretation_univariate(var, df, ord).stats
       /\ screen' = screen \o interpretation_univariate(var, df, ord).shown
  /\ pc' = "interpreted"
  /\ UNCHANGED <<df, q1, q3, df_bar, cutoff, outliers, iqr_q, columns, selection, assistant, warehouse>>

\* Lines 478-493.
Outliers ==
  /\ pc = "interpreted"
  /\ LET res == iqr_outliers(df)
     IN  /\ cutoff' = <<res.cutoff>>
         /\ outliers' = res.outliers
         /\ iqr_q' = [q1 |-> res.q1, q3 |-> res.q3]
         /\ IF res.outliers = <<>> \/ isna(res.cutoff)
              THEN screen' = screen \o <<Write(NoStrongOutliers)>>
              ELSE \E ord \in SortOrders(df, Range(res.outliers), FALSE) :
                     screen' = screen \o
                       << [kind |-> "cutoff_text", cutoff |-> fmt(res.cutoff, Unit, 100)],
                          [kind |-> "dataframe", rows |-> Rows(df, ord)] >>
  /\ pc' = "done"
  /\ UNCHANGED <<df, q1, q3, df_bar, summary, columns, selection, assistant, warehouse>>

\* ------------------------------------------------- the functions on their own
\* iqr_outliers and interpretation_univariate called directly with a table.
\* T are the tables and V the variable names of the calls.
InitCallsFrom(T, V) ==
  /\ pc = "call"
  /\ df \in T
  /\ var \in V
  /\ columns = {"county", var}
  /\ theme_var_map = <<>>
  /\ theme = ""
  /\ Blank

InitCalls == InitCallsFrom(Tables \cup ExampleTables, {"hospitals_per_10k"})

\* Every name with a label, and one the catalog does not know.
CallNames == DOMAIN VAR_LABELS \cup {"foo"}

InitCatalogCalls == InitCallsFrom(CatalogTables, CallNames)

CallIqrOutliers ==
  /\ pc = "call"
  /\ cutoff' = <<iqr_outliers(df).cutoff>>
  /\ outliers' = iqr_outliers(df).outliers
  /\ iqr_q' = [q1 |-> iqr_outliers(df).q1, q3 |-> iqr_outliers(df).q3]
  /\ pc' = "iqr_outliers"
  /\ UNCHANGED <<df, q1, q3, df_bar, summary, screen, columns, selection, assistant, warehouse>>

\* interpretation_univariate sorting the caller's table in place.
CallInterpretationUnivariate_inplace ==
  /\ pc = "call"
  /\ \E ord \in SortOrders(df, Range(dropna(df)), TRUE) :
       /\ summary' = interpretation_univariate(var, df, ord).stats
       /\ screen' = screen \o interpretation_univariate(var, df, ord).shown
       /\ df' = Rows(df, ord)
  /\ pc' = "interpretation_univariate"
  /\ UNCHANGED <<q1, q3, df_bar, cutoff, outliers, iqr_q, columns, selection, assistant, warehouse>>

CallInterpretationUnivariate ==
  /\ pc = "call"
  /\ \E ord \in SortOrders(df, Range(dropna(df)), TRUE) :
       /\ summary' = interpretation_univariate(var, df, ord).stats
       /\ screen' = screen \o interpretation_univariate(var, df, ord).shown
  /\ pc' = "interpretation_univariate"
  /\ UNCHANGED <<df, q1, q3, df_bar, cutoff, outliers, iqr_q, columns, selection, assistant, warehouse>>

\* ---------------------------------------------------------- specification
\* ------------------------------------------- the AI Assistant page (379-414)
InitAssistant ==
  /\ pc = "assistant"
  /\ df = <<>>
  /\ columns = {}
  /\ theme_var_map = <<>>
  /\ theme = ""
  /\ var = ""
  /\ Blank

\* Lines 382-385: the table is read and its description serialized.
Summarize ==
  /\ pc = "assistant"
  /\ summary_json' \in Summaries
  /\ pc' = "summarized"
  /\ UNCHANGED <<eda, warehouse, screen, user_question, pressed, prompt_text, sent,
                 response, clean>>

\* The button test without the test of the question.
Ask_unchecked ==
  /\ pc = "summarized"
  /\ \E question \in Questions, button \in BOOLEAN :
       /\ user_question' = question
       /\ pressed' = button
       /\ pc' = IF button THEN "asked" ELSE "idle"
  /\ UNCHANGED <<eda, warehouse, screen, summary_json, prompt_text, sent, response, clean>>

\* Lines 387-390: the text area, the button, and the test of the question.
Ask ==
  /\ pc = "summarized"
  /\ \E question \in Questions, button \in BOOLEAN :
       /\ user_question' = question
       /\ pressed' = button
       /\ pc' = IF button /\ question # "" THEN "asked" ELSE "idle"
  /\ UNCHANGED <<eda, warehouse, screen, summary_json, prompt_text, sent, response, clean>>

\* Lines 394-400.
BuildPrompt ==
  /\ pc = "asked"
  /\ prompt_text' = <<prompt_of(summary_json, user_question)>>
  /\ pc' = "prompted"
  /\ UNCHANGED <<eda, warehouse, screen, summary_json, user_question, pressed, sent,
                 response, clean>>

\* Lines 402-409: the completion call returns a text, or raises and ends
\* the run.
Complete ==
  /\ pc = "prompted"
  /\ sent' = Append(sent, prompt_text[1])
  /\ \/ /\ \E r \in Responses : response' = <<r>>
        /\ pc' = "responded"
     \/ /\ response' = response
        /\ pc' = "call_failed"
  /\ UNCHANGED <<eda, warehouse, screen, summary_json, user_question, pressed,
                 prompt_text, clean>>

\* Line 411.
Extract ==
  /\ pc = "responded"
  /\ clean' = <<extract_final_answer(response[1])>>
  /\ pc' = "extracted"
  /\ UNCHANGED <<eda, warehouse, screen, summary_json, user_question, pressed,
                 prompt_text, sent, response>>

\* Lines 413-414.
Display ==
  /\ pc = "extracted"
  /\ screen' = screen \o <<[kind |-> "markdown", text |-> "### AI Answer"],
                            [kind |-> "write", answer |-> clean[1]]>>
  /\ pc' = "answered"
  /\ UNCHANGED <<eda, warehouse, assistant, warehouse>>

\* ------------------------------------------------ load_eda_data (93-133)
InitLoad ==
  /\ pc = "load"
  /\ merged \in {None} \cup {<<t>> : t \in MergedTables}
  /\ svi_clean \in {None} \cup {<<t>> : t \in SviTables}
  /\ df = <<>>
  /\ columns = {}
  /\ theme_var_map = <<>>
  /\ theme = ""
  /\ var = ""
  /\ q1 = None /\ q3 = None /\ df_bar = <<>> /\ summary = None
  /\ cutoff = None /\ outliers = <<>> /\ iqr_q = [q1 |-> None, q3 |-> None]
  /\ screen = <<>>
  /\ summary_json = "" /\ user_question = "" /\ pressed = FALSE
  /\ prompt_text = None /\ sent = <<>> /\ response = None /\ clean = None

LoadFrame == <<q1, q3, df_bar, summary, cutoff, outliers, iqr_q, selection,
               assistant, warehouse>>

\* Lines 101-113: the merged table is read, or the load ends with an
\* error; its columns are renamed.
ReadMerged ==
  /\ pc = "load"
  /\ IF merged = None
       THEN /\ screen' = screen \o <<[kind |-> "error"]>>
            /\ pc' = "no_table"
            /\ UNCHANGED <<df, columns>>
       ELSE /\ df' = [i \in DOMAIN merged[1].rows |->
                        [county |-> merged[1].rows[i], val |-> NaN]]
            /\ columns' = rename(merged[1].columns)
            /\ pc' = "renamed"
            /\ screen' = screen
  /\ UNCHANGED LoadFrame

\* Lines 115-117.
CheckCounty ==
  /\ pc = "renamed"
  /\ IF "county" \notin columns
       THEN /\ screen' = screen \o <<[kind |-> "error"]>>
            /\ pc' = "no_table"
       ELSE /\ screen' = screen
            /\ pc' = "checked"
  /\ UNCHANGED <<df, columns>>
  /\ UNCHANGED LoadFrame

\* Lines 119-127: the daytime population is joined in when the second
\* table can be read and has both columns; a failure only warns.
MergeSvi ==
  /\ pc = "checked"
  /\ IF svi_clean = None
       THEN /\ screen' = screen \o <<[kind |-> "warning"]>>
            /\ UNCHANGED <<df, columns>>
       ELSE IF {"county", "E_DAYPOP_MEAN"} \subseteq svi_clean[1].columns
         THEN /\ df' = left_merge(df, svi_clean[1].rows)
              /\ columns' = merge_columns(columns)
              /\ screen' = screen
         ELSE UNCHANGED <<df, columns, screen>>
  /\ pc' = "merged"
  /\ UNCHANGED LoadFrame

\* Lines 129-133: only the columns of keep_cols are returned.
KeepColumns ==
  /\ pc = "merged"
  /\ columns' = columns \cap Range(KeepCols)
  /\ df' = IF "e_daypop_mean" \in columns THEN df
           ELSE [i \in DOMAIN df |-> [county |-> df[i].county, val |-> NaN]]
  /\ pc' = "returned"
  /\ screen' = screen
  /\ UNCHANGED LoadFrame

Init == InitPage \/ InitCalls

Next ==
  \/ LoadData
  \/ ChooseMetric
  \/ RankingChart
  \/ Interpretation
  \/ Outliers
  \/ CallIqrOutliers
  \/ CallInterpretationUnivariate

Spec == Init /\ [][Next]_vars

\* The same page and calls, with the columns of the table and the variable
\* name varying over the catalog and the tables kept small.
InitCatalog == InitPage \/ InitCatalogCalls

NextCatalog ==
  \/ LoadCatalogData
  \/ ChooseMetric
  \/ RankingChart
  \/ Interpretation
  \/ Outliers
  \/ CallIqrOutliers
  \/ CallInterpretationUnivariate

SpecCatalog == InitCatalog /\ [][NextCatalog]_vars

\* The AI Assistant page.
NextAssistant ==
  \/ Summarize
  \/ Ask
  \/ BuildPrompt
  \/ Complete
  \/ Extract
  \/ Display

SpecAssistant == InitAssistant /\ [][NextAssistant]_vars

\* load_eda_data.
NextLoad ==
  \/ ReadMerged
  \/ CheckCounty
  \/ MergeSvi
  \/ KeepColumns

SpecLoad == InitLoad /\ [][NextLoad]_vars

\* ====================================================================
\* Reference notions, stated on the table alone.
\* ====================================================================
\* The rows that have a value.
Valued == {i \in DOMAIN df : df[i].val # NaN}

AllMissing == Valued = {}

\* The j-th smallest non-missing value (1-based), by counting.
OrderStat(j) ==
  CHOOSE v \in {df[i].val : i \in Valued} :
    /\ Cardinality({i \in Valued : df[i].val < v}) < j
    /\ j <= Cardinality({i \in Valued : df[i].val <= v})

\* The (25 * k)-th percentile of the non-missing values in units of 1/Unit:
\* the weighted mean of the two closest ranks around (n - 1) * k / 4.
Percentile(k) ==
  LET n  == Cardinality(Valued)
      lo == ((n - 1) * k) \div 4
      w  == ((n - 1) * k) % 4
      x  == OrderStat(lo + 1)
      y  == IF w = 0 THEN x ELSE OrderStat(lo + 2)
  IN  ((Unit \div 4) * ((4 - w) * x + w * y))

RefMin == CHOOSE v \in {df[i].val : i \in Valued} : \A i \in Valued : v <= df[i].val
RefMax == CHOOSE v \in {df[i].val : i \in Valued} : \A i \in Valued : v >= df[i].val

Min2(a, b) == IF a < b THEN a ELSE b

\* The function under discussion has returned.
IqrReturned == cutoff # None
InterpretationReturned == pc \in {"interpretation_univariate", "interpreted", "done"}

\* Every number formatted into a displayed text.
NumbersShown ==
  UNION { IF screen[k].kind = "bullets"
            THEN {screen[k].median, screen[k].q1, screen[k].q3,
                  screen[k].vmin, screen[k].vmax} \cup Range(screen[k].ratio)
          ELSE IF screen[k].kind = "cutoff_text" THEN {screen[k].cutoff}
          ELSE {} : k \in DOMAIN screen }

Shown(kind) == {k \in DOMAIN screen : screen[k].kind = kind}

\* ====================================================================
\* C1.  With at least one non-missing value, iqr_outliers returns
\* cutoff = Q3 + 1.5 * (Q3 - Q1), Q1 and Q3 being the 25th and 75th
\* percentiles of the non-missing values, and the outliers are exactly the
\* rows whose value is strictly greater than the cutoff (each once, never a
\* row at or below the cutoff).  Values 10, 20, 30, 40, 1000 give Q1 = 20,
\* Q3 = 40, cutoff = 70 and the single outlier 1000.
C1_CutoffAndOutliers ==
  (IqrReturned /\ ~AllMissing) =>
    /\ Len(cutoff) = 1
    /\ 2 * cutoff[1] = 5 * Percentile(3) - 3 * Percentile(1)
    /\ Range(outliers) = {i \in Valued : Unit * df[i].val > cutoff[1]}
    /\ Len(outliers) = Cardinality(Range(outliers))
    /\ (df = MkTable(<<10, 20, 30, 40, 1000>>) =>
          /\ Percentile(1) = 20 * Unit
          /\ Percentile(3) = 40 * Unit
          /\ cutoff = <<70 * Unit>>
          /\ outliers = <<5>>)

\* An outlier is returned from a column with a positive IQR, next to rows
\* that are not flagged.
C1_Witness ==
  /\ pc = "iqr_outliers"
  /\ outliers # <<>>
  /\ Percentile(3) > Percentile(1)
  /\ \E i \in Valued : i \notin Range(outliers)

\* C2.  When every value is missing, or the table has no rows, iqr_outliers
\* returns the undefined cutoff (NaN) with an empty outlier set.
C2_AllMissingSentinel ==
  (IqrReturned /\ AllMissing) => (cutoff = <<NaN>> /\ outliers = <<>>)

C2_Witness ==
  /\ pc = "iqr_outliers"
  /\ AllMissing
  /\ Len(df) >= 2

\* C3.  When every value of the column is missing, interpretation_univariate
\* displays the no-data message only and computes no statistic; the page
\* displays its empty-state message and returns before the quartiles, the
\* ranking, interpretation_univariate and iqr_outliers; no NaN is formatted
\* into a displayed text.
C3_NoDataOnly ==
  AllMissing =>
    /\ pc = "interpretation_univariate" =>
         (summary = None /\ screen = <<Write(NoDataAvailable)>>)
    /\ pc \notin {"charted", "interpreted", "done"}
    /\ pc = "no_data" =>
         /\ screen = <<Write(NoDataForVariable)>>
         /\ q1 = None /\ q3 = None /\ df_bar = <<>>
         /\ summary = None /\ cutoff = None /\ outliers = <<>>
    /\ NaN \notin NumbersShown

C3_Witness ==
  /\ pc = "interpretation_univariate"
  /\ AllMissing
  /\ Len(df) >= 2
  /\ screen # <<>>

\* C4.  For a column with at least one non-missing value, the statistics of
\* interpretation_univariate satisfy min <= Q1 <= median <= Q3 <= max.
C4_QuartileOrder ==
  (InterpretationReturned /\ ~AllMissing) =>
    /\ Len(summary) = 1
    /\ summary[1].vmin <= summary[1].q1
    /\ summary[1].q1 <= summary[1].median
    /\ summary[1].median <= summary[1].q3
    /\ summary[1].q3 <= summary[1].vmax

\* All five statistics differ.
C4_Witness ==
  /\ InterpretationReturned
  /\ summary # None
  /\ summary[1].vmin < summary[1].q1
  /\ summary[1].q1 < summary[1].median
  /\ summary[1].median < summary[1].q3
  /\ summary[1].q3 < summary[1].vmax

\* C5.  The max/min ratio is exposed, and its bullet displayed, exactly when
\* min > 0 and 1 < max/min <= 10; the exposed ratio is max/min; no division
\* by zero is performed.
C5_RatioWindow ==
  (InterpretationReturned /\ ~AllMissing) =>
    LET inWindow == RefMin > 0 /\ RefMin < RefMax /\ RefMax <= 10 * RefMin
    IN  /\ Len(summary) = 1
        /\ (summary[1].ratio # None) <=> inWindow
        /\ inWindow => summary[1].ratio = <<Unit * RefMax, Unit * RefMin>>
        /\ Shown("bullets") # {}
        /\ \A k \in Shown("bullets") : (screen[k].ratio # None) <=> inWindow
        /\ \A d \in Range(summary[1].divisors) : d # 0

\* The ratio is exposed at the upper edge of the window, max = 10 * min.
C5_Witness ==
  /\ InterpretationReturned
  /\ summary # None
  /\ summary[1].ratio # None
  /\ RefMax = 10 * RefMin

\* C6.  With n non-missing rows, bottom-3 and top-3 each hold min(3, n)
\* distinct non-missing rows; every row of top-3 has a value >= that of
\* every non-missing row outside top-3, and every row of bottom-3 a value
\* <= that of every non-missing row outside bottom-3.
C6_TopBottomExtremes ==
  (InterpretationReturned /\ ~AllMissing) =>
    LET n   == Cardinality(Valued)
        top == summary[1].top3
        bot == summary[1].bottom3
    IN  /\ Len(top) = Min2(3, n) /\ Cardinality(Range(top)) = Len(top)
        /\ Len(bot) = Min2(3, n) /\ Cardinality(Range(bot)) = Len(bot)
        /\ Range(top) \subseteq Valued
        /\ Range(bot) \subseteq Valued
        /\ \A i \in Range(top) : \A j \in Valued \ Range(top) :
             df[i].val >= df[j].val
        /\ \A i \in Range(bot) : \A j \in Valued \ Range(bot) :
             df[i].val <= df[j].val

\* Four rows with a value, all different: one row is outside top-3 and one
\* outside bottom-3.
C6_Witness ==
  /\ InterpretationReturned
  /\ Cardinality(Valued) = 4
  /\ Cardinality({df[i].val : i \in Valued}) = 4
  /\ summary # None
  /\ Range(summary[1].top3) # Range(summary[1].bottom3)

\* C7.  The top-3 rows are displayed largest first and the bottom-3 rows
\* smallest first.
C7_PresentationOrder ==
  /\ \A k \in Shown("top3") :
       \A a, b \in DOMAIN screen[k].rows :
         a < b => screen[k].rows[a].val >= screen[k].rows[b].val
  /\ \A k \in Shown("bottom3") :
       \A a, b \in DOMAIN screen[k].rows :
         a < b => screen[k].rows[a].val <= screen[k].rows[b].val

\* C8.  On the page every row that has a value gets exactly one label:
\* "Top 25%" when value >= Q3, otherwise "Bottom 25%" when value <= Q1,
\* otherwise "Middle"; Q1 and Q3 are the table's 25th and 75th percentiles,
\* the same for every row.
C8_BucketPartition ==
  (pc \in {"charted", "interpreted", "done"}) =>
    /\ q1 = <<Percentile(1)>>
    /\ q3 = <<Percentile(3)>>
    /\ \A i \in Valued :
         /\ Cardinality({k \in DOMAIN df_bar : df_bar[k].county = df[i].county}) = 1
         /\ \A k \in DOMAIN df_bar :
              df_bar[k].county = df[i].county =>
                /\ df_bar[k].val = df[i].val
                /\ df_bar[k].Group =
                     (IF Unit * df[i].val >= Percentile(3) THEN "Top 25%"
                      ELSE IF Unit * df[i].val <= Percentile(1) THEN "Bottom 25%"
                      ELSE "Middle")
    /\ \A k \in DOMAIN df_bar : df_bar[k].Group \in {"Top 25%", "Bottom 25%", "Middle"}
    /\ \A k \in Shown("chart") : screen[k].marks = Range(df_bar)

\* All three labels occur, one of them on a row equal to Q3.
C8_Witness ==
  /\ pc = "charted"
  /\ {df_bar[k].Group : k \in DOMAIN df_bar} = {"Top 25%", "Bottom 25%", "Middle"}
  /\ \E k \in DOMAIN df_bar : <<Unit * df_bar[k].val>> = q3

\* C9.  When Q1 = Q3 no row is labelled "Middle": a row is "Top 25%" when
\* its value is >= Q3 (equal included) and "Bottom 25%" when it is below.
C9_DegenerateBuckets ==
  (pc \in {"charted", "interpreted", "done"} /\ Percentile(1) = Percentile(3)) =>
    \A k \in DOMAIN df_bar :
      /\ df_bar[k].Group # "Middle"
      /\ df_bar[k].Group = "Top 25%" <=> Unit * df_bar[k].val >= Percentile(3)
      /\ df_bar[k].Group = "Bottom 25%" <=> Unit * df_bar[k].val < Percentile(3)

\* Q1 = Q3 with a row below, a row equal and a row above.
C9_Witness ==
  /\ pc = "charted"
  /\ q1 = q3
  /\ \E k \in DOMAIN df_bar : <<Unit * df_bar[k].val>> = q3
  /\ \E k \in DOMAIN df_bar : Unit * df_bar[k].val < q3[1]
  /\ \E k \in DOMAIN df_bar : Unit * df_bar[k].val > q3[1]

\* C10.  When Q1 = Q3 the cutoff is Q3 (a number, not NaN), the outliers
\* are exactly the rows strictly above Q3, and rows equal to Q3 are not
\* outliers.  Values 5, 5, 5 give cutoff 5 and no outlier.
C10_DegenerateCutoff ==
  (IqrReturned /\ ~AllMissing /\ Percentile(1) = Percentile(3)) =>
    /\ cutoff = <<Percentile(3)>>
    /\ ~isna(cutoff[1])
    /\ Range(outliers) = {i \in Valued : Unit * df[i].val > Percentile(3)}
    /\ \A i \in Valued : Unit * df[i].val = Percentile(3) => i \notin Range(outliers)
    /\ (df = MkTable(<<5, 5, 5>>) => (cutoff = <<5 * Unit>> /\ outliers = <<>>))

\* Q1 = Q3 with an outlier above and rows equal to the cutoff.
C10_Witness ==
  /\ pc = "iqr_outliers"
  /\ ~AllMissing
  /\ Percentile(1) = Percentile(3)
  /\ outliers # <<>>
  /\ \E i \in Valued : <<Unit * df[i].val>> = cutoff

\* C11.  On the same table and column the Q1 and Q3 of the summary step,
\* of the outlier detector and of the bucket classifier are the same two
\* numbers: the 25th and 75th percentiles, by linear interpolation, of the
\* non-missing values.
C11_SameQuartiles ==
  ~AllMissing =>
    /\ InterpretationReturned =>
         (summary[1].q1 = Percentile(1) /\ summary[1].q3 = Percentile(3))
    /\ IqrReturned =>
         (iqr_q.q1 = <<Percentile(1)>> /\ iqr_q.q3 = <<Percentile(3)>>)
    /\ q1 # None => (q1 = <<Percentile(1)>> /\ q3 = <<Percentile(3)>>)
    /\ pc = "done" =>
         /\ <<summary[1].q1>> = q1 /\ <<summary[1].q3>> = q3
         /\ iqr_q.q1 = q1 /\ iqr_q.q3 = q3

\* The page has run all three on a column whose quartiles fall between two
\* ranks.
C11_Witness ==
  /\ pc = "done"
  /\ q1 # q3
  /\ q1[1] % Unit # 0
  /\ q3[1] % Unit # 0
  /\ iqr_q.q1 = q1
  /\ summary # None

\* ====================================================================
\* Reference notions for the catalog.
\* ====================================================================
\* The page has passed the choice of theme and metric.
PageChosen == pc \in {"selected", "charted", "interpreted", "done", "no_data"}

\* The position of x in the sequence sq.
Pos(sq, x) == CHOOSE i \in DOMAIN sq : sq[i] = x

\* The catalog themes that have at least one variable among the columns.
ThemesWithColumns ==
  {k \in DOMAIN THEME_VARS : Range(THEME_VARS[k].vars) \cap columns # {}}

TextsShown(kind) == {screen[k].text : k \in Shown(kind)}

\* C13.  The metrics offered under a theme are exactly the theme's catalog
\* variables that are columns of the loaded table, in catalog order; a theme
\* with no such variable is not offered; the metric chosen is a column; and
\* when no theme has such a variable the page reports an error and renders
\* nothing further.
C13_OfferedMetrics ==
  /\ (PageChosen \/ pc = "no_variables") =>
       /\ \A e \in DOMAIN theme_var_map :
            \E k \in DOMAIN THEME_VARS :
              /\ THEME_VARS[k].theme = theme_var_map[e].theme
              /\ Range(theme_var_map[e].vars) = Range(THEME_VARS[k].vars) \cap columns
              /\ theme_var_map[e].vars # <<>>
              /\ \A a, b \in DOMAIN theme_var_map[e].vars :
                   a < b => Pos(THEME_VARS[k].vars, theme_var_map[e].vars[a])
                              < Pos(THEME_VARS[k].vars, theme_var_map[e].vars[b])
       /\ \A k \in ThemesWithColumns :
            Cardinality({e \in DOMAIN theme_var_map :
                           theme_var_map[e].theme = THEME_VARS[k].theme}) = 1
       /\ Len(theme_var_map) = Cardinality(ThemesWithColumns)
       /\ \A a, b \in DOMAIN theme_var_map :
            a < b => \E k, l \in DOMAIN THEME_VARS :
                       /\ k < l
                       /\ THEME_VARS[k].theme = theme_var_map[a].theme
                       /\ THEME_VARS[l].theme = theme_var_map[b].theme
       /\ (pc = "no_variables") <=> (ThemesWithColumns = {})
  /\ PageChosen =>
       /\ var \in columns
       /\ \E e \in DOMAIN theme_var_map :
            theme_var_map[e].theme = theme /\ var \in Range(theme_var_map[e].vars)
  /\ pc = "no_variables" =>
       /\ theme = "" /\ var = ""
       /\ screen = <<[kind |-> "error", text |-> NoVariablesFound]>>
       /\ q1 = None /\ q3 = None /\ df_bar = <<>>
       /\ summary = None /\ cutoff = None /\ outliers = <<>>

\* A metric has been chosen from a table that lacks some variable of the
\* chosen theme, has no variable of another theme, and has a column that is
\* no metric.
C13_Witness ==
  /\ pc = "selected"
  /\ "is_medical_desert" \in columns
  /\ Cardinality(ThemesWithColumns) < Len(THEME_VARS)
  /\ \E k \in DOMAIN THEME_VARS :
       /\ THEME_VARS[k].theme = theme
       /\ ~(Range(THEME_VARS[k].vars) \subseteq columns)

\* The twelve recognized names.
TwelveNames ==
  {"hospitals_per_10k", "beds_per_10k", "num_hospitals", "population_total",
   "total_capacity", "mp_pov150_mean", "mp_uninsur_mean", "mp_noveh_mean",
   "e_heat_risk_mean", "max_temp_2022", "e_daypop_mean", "is_medical_desert"}

FourThemes ==
  {"Capacity and access", "Population and daytime presence", "Social barriers",
   "Heat and climate"}

\* The number of places at which a name is listed under a theme.
ThemePlaces(name) ==
  {<<k, j>> \in (DOMAIN THEME_VARS) \X (1..Len(EDA_VARS)) :
     j \in DOMAIN THEME_VARS[k].vars /\ THEME_VARS[k].vars[j] = name}

\* The entries of the offered map that list a name.
OfferedUnder(name) ==
  {e \in DOMAIN theme_var_map : name \in Range(theme_var_map[e].vars)}

\* C14 as stated.  Each of the twelve recognized names belongs to exactly
\* one of the four themes and has exactly one display label, so that each
\* of them that is a column of the loaded table is offered under exactly
\* one theme.
C14_TwelveNamesOneTheme ==
  /\ {THEME_VARS[k].theme : k \in DOMAIN THEME_VARS} = FourThemes
  /\ \A name \in TwelveNames :
       /\ Cardinality(ThemePlaces(name)) = 1
       /\ name \in DOMAIN VAR_LABELS
       /\ (PageChosen /\ name \in columns) => Cardinality(OfferedUnder(name)) = 1

\* C14, amended.  Each of the twelve recognized names has exactly one
\* display label; each of the eleven names of EDA_VARS belongs to exactly
\* one of the four themes; is_medical_desert belongs to no theme and is
\* never offered for selection.
C14_ElevenNamesOneTheme ==
  /\ {THEME_VARS[k].theme : k \in DOMAIN THEME_VARS} = FourThemes
  /\ Len(THEME_VARS) = 4
  /\ DOMAIN VAR_LABELS = TwelveNames
  /\ \A name \in TwelveNames : VAR_LABELS[name] # ""
  /\ Range(EDA_VARS) = TwelveNames \ {"is_medical_desert"}
  /\ \A name \in Range(EDA_VARS) : Cardinality(ThemePlaces(name)) = 1
  /\ ThemePlaces("is_medical_desert") = {}
  /\ OfferedUnder("is_medical_desert") = {}
  /\ PageChosen =>
       /\ var # "is_medical_desert"
       /\ \A name \in Range(EDA_VARS) \cap columns : Cardinality(OfferedUnder(name)) = 1

\* The flag column is in the loaded table and a metric has been chosen.
C14_Witness ==
  /\ pc = "selected"
  /\ "is_medical_desert" \in columns
  /\ var \in Range(EDA_VARS)

\* C15.  For a name the catalog does not know, with at least one
\* non-missing value, interpretation_univariate runs to its end: the label
\* is the name itself and each of the three narrative parts is the generic
\* text, which is not empty.
C15_UnknownName ==
  (InterpretationReturned /\ ~AllMissing /\ var \notin TwelveNames) =>
    /\ summary # None
    /\ Shown("bullets") # {}
    /\ \A k \in Shown("bullets") \cup Shown("top3") \cup Shown("bottom3") :
         screen[k].label = var
    /\ TextsShown("what_it_measures") = {WhatGeneric}
    /\ TextsShown("why_it_matters") = {WhyGeneric}
    /\ TextsShown("modeling_use") = {ModelGeneric}
    /\ "" \notin {WhatGeneric, WhyGeneric, ModelGeneric}

C15_Witness ==
  /\ pc = "interpretation_univariate"
  /\ var = "foo"
  /\ ~AllMissing
  /\ Shown("modeling_use") # {}

\* C16.  For every name of EDA_VARS each of the three narrative parts that
\* interpretation_univariate displays is a text of its own, not the generic
\* one.
C16_OwnNarrative ==
  (InterpretationReturned /\ ~AllMissing /\ var \in TwelveNames \ {"is_medical_desert"}) =>
    /\ Cardinality(Shown("what_it_measures")) = 1
    /\ Cardinality(Shown("why_it_matters")) = 1
    /\ Cardinality(Shown("modeling_use")) = 1
    /\ TextsShown("what_it_measures") \cap {WhatGeneric, ""} = {}
    /\ TextsShown("why_it_matters") \cap {WhyGeneric, ""} = {}
    /\ TextsShown("modeling_use") \cap {ModelGeneric, ""} = {}

\* The variable that comes last in every chain of the narrative.
C16_Witness ==
  /\ InterpretationReturned
  /\ ~AllMissing
  /\ var = "e_daypop_mean"
  /\ Shown("modeling_use") # {}

\* C17.  iqr_outliers and interpretation_univariate leave the table as it
\* was: same rows, same order, same county identifiers and values.
C17_TableUnchanged ==
  [][(pc \in {"call", "charted", "interpreted"}) => (df' = df)]_vars

\* A function has returned on a table with a missing value whose rows are
\* not in ascending order.
C17_Witness ==
  /\ pc \in {"interpretation_univariate", "iqr_outliers"}
  /\ \E i \in DOMAIN df : isna(df[i].val)
  /\ \E i, j \in Valued : i < j /\ df[i].val > df[j].val

\* The part of C18 about the statistics: they are those of the rows that
\* have a value, and no row without a value is in top-3, bottom-3 or the
\* outlier set.
C18_ExcludedFromStatistics ==
  /\ (InterpretationReturned /\ ~AllMissing) =>
       /\ summary[1].median = Percentile(2)
       /\ summary[1].q1 = Percentile(1)
       /\ summary[1].q3 = Percentile(3)
       /\ summary[1].vmin = Unit * RefMin
       /\ summary[1].vmax = Unit * RefMax
       /\ summary[1].ratio # None => summary[1].ratio = <<Unit * RefMax, Unit * RefMin>>
       /\ Range(summary[1].top3) \subseteq Valued
       /\ Range(summary[1].bottom3) \subseteq Valued
  /\ (IqrReturned /\ ~AllMissing) =>
       /\ 2 * cutoff[1] = 5 * Percentile(3) - 3 * Percentile(1)
       /\ Range(outliers) \subseteq Valued
  /\ \A k \in Shown("top3") \cup Shown("bottom3") \cup Shown("dataframe") :
       \A r \in DOMAIN screen[k].rows : ~isna(screen[k].rows[r].val)

RankingShown == pc \in {"charted", "interpreted", "done"}

\* C18 as stated.  A row with a missing value is excluded from all
\* statistics and is still among the rows of the ranking displayed.
C18_MissingRowRanked ==
  /\ C18_ExcludedFromStatistics
  /\ RankingShown =>
       \A i \in DOMAIN df :
         isna(df[i].val) => \E k \in DOMAIN df_bar : df_bar[k].county = df[i].county

\* C18, amended.  A row with a missing value is excluded from all
\* statistics, from top-3, bottom-3 and the outlier set, and also from the
\* ranking displayed, which holds exactly the rows that have a value; the
\* row remains in the loaded table only.
C18_MissingRowDropped ==
  /\ C18_ExcludedFromStatistics
  /\ RankingShown =>
       /\ {df_bar[k].county : k \in DOMAIN df_bar} = {df[i].county : i \in Valued}
       /\ Len(df_bar) = Cardinality(Valued)
       /\ \A k \in DOMAIN df_bar : ~isna(df_bar[k].val)
       /\ \A k \in Shown("chart") : screen[k].marks = Range(df_bar)

\* The page has finished on a table with a missing row next to rows with
\* values.
C18_Witness ==
  /\ pc = "done"
  /\ \E i \in DOMAIN df : isna(df[i].val)
  /\ Cardinality(Valued) >= 2
  /\ Len(df_bar) < Len(df)

\* C19.  With exactly one non-missing row, of value v: median = Q1 = Q3 =
\* min = max = v, the ratio is omitted, top-3 and bottom-3 are that single
\* row, the cutoff is v and there is no outlier.
C19_SingleRow ==
  Cardinality(Valued) = 1 =>
    LET i == CHOOSE x \in Valued : TRUE
        v == Unit * df[i].val
    IN  /\ InterpretationReturned =>
             /\ summary # None
             /\ summary[1].median = v /\ summary[1].q1 = v /\ summary[1].q3 = v
             /\ summary[1].vmin = v /\ summary[1].vmax = v
             /\ summary[1].ratio = None
             /\ summary[1].top3 = <<i>> /\ summary[1].bottom3 = <<i>>
             /\ \A k \in Shown("bullets") : screen[k].ratio = None
             /\ \A k \in Shown("top3") \cup Shown("bottom3") : screen[k].rows = <<df[i]>>
        /\ IqrReturned => (cutoff = <<v>> /\ outliers = <<>>)
        /\ (df = MkTable(<<7>>) /\ InterpretationReturned) => summary[1].median = 7 * Unit

\* The page has finished on a table whose only value is positive, so that
\* max/min = 1.
C19_Witness ==
  /\ pc = "done"
  /\ Cardinality(Valued) = 1
  /\ \E i \in Valued : df[i].val > 0
  /\ summary # None
  /\ cutoff # None

\* ====================================================================
\* The AI Assistant page.
\* ====================================================================
AssistantEnded == pc \in {"idle", "call_failed", "answered"}

AnswerShown == Shown("write") # {}

\* C20.  On the AI Assistant page a run in which the button is pressed with
\* a non-empty question makes exactly one completion call, and in this
\* order: the prompt is built from the summary statistics and the question,
\* the endpoint is called with it, the answer is extracted from the
\* response, the answer is displayed.  A run in which the button is not
\* pressed or the question is empty makes no call and displays no answer.
C20_OneCompletionCall ==
  /\ Len(sent) <= 1
  /\ (AssistantEnded /\ pressed /\ user_question # "") => Len(sent) = 1
  /\ pc = "answered" => (AnswerShown /\ pressed /\ user_question # "")
  /\ prompt_text # None =>
       /\ pressed /\ user_question # ""
       /\ prompt_text = <<prompt_of(summary_json, user_question)>>
  /\ sent # <<>> => (prompt_text # None /\ sent = prompt_text)
  /\ response # None => sent # <<>>
  /\ clean # None => response # None
  /\ AnswerShown =>
       /\ clean # None
       /\ Cardinality(Shown("write")) = 1
       /\ \A k \in Shown("write") : screen[k].answer = clean[1]
  /\ (pc \in {"summarized", "idle"} \/ ~pressed \/ user_question = "") =>
       /\ sent = <<>>
       /\ response = None
       /\ clean = None
       /\ ~AnswerShown
       /\ screen = <<>>
  /\ (pc = "idle") <=> (AssistantEnded /\ (~pressed \/ user_question = ""))

\* The answer to a question made of a blank is displayed, extracted from a
\* response that holds more than the answer.
C20_Witness ==
  /\ pc = "answered"
  /\ user_question = " "
  /\ Len(sent) = 1
  /\ AnswerShown
  /\ clean # response
  /\ clean # <<<<>>>>

\* ====================================================================
\* Top-3 and bottom-3 together.
\* ====================================================================
Min3(n) == IF n < 3 THEN n ELSE 3

\* The rows that are both in top-3 and in bottom-3.
SharedRows == Range(summary[1].top3) \cap Range(summary[1].bottom3)

\* C21.  With n rows that have a value (county identifiers distinct), top-3
\* and bottom-3 share no row when n >= 6 and exactly 2 * min(3, n) - n rows
\* when 1 <= n < 6.
C21_TopBottomOverlap ==
  (InterpretationReturned /\ ~AllMissing) =>
    LET n == Cardinality(Valued)
    IN  /\ \A i, j \in DOMAIN df : df[i].county = df[j].county => i = j
        /\ Cardinality(SharedRows) = IF n >= 6 THEN 0 ELSE 2 * Min3(n) - n
        /\ \A k \in Shown("top3") : \A l \in Shown("bottom3") :
             Cardinality(Range(screen[k].rows) \cap Range(screen[l].rows))
               = IF n >= 6 THEN 0 ELSE 2 * Min3(n) - n

\* Six rows with a value next to a missing one: the two tables are apart,
\* though a row of one has the same value as a row of the other.
C21_Witness ==
  /\ InterpretationReturned
  /\ Cardinality(Valued) = 6
  /\ Len(df) > 6
  /\ SharedRows = {}
  /\ \E i \in Range(summary[1].top3), j \in Range(summary[1].bottom3) :
       df[i].val = df[j].val

\* ====================================================================
\* load_eda_data.
\* ====================================================================
\* No county occurs in two rows.
UniqueCounties(rows) ==
  \A i, j \in DOMAIN rows : rows[i].county = rows[j].county => i = j

\* C22.  In the table load_eda_data returns, county identifiers are unique
\* whenever they are unique in the merged warehouse table: joining the
\* daytime population adds no row and duplicates none, whatever rows the
\* second table holds; and the table has a county column and only columns
\* among county and the catalog variables (or there is no table at all).
C22_CountiesStayUnique ==
  /\ pc = "returned" =>
       /\ merged # None
       /\ Len(df) = Len(merged[1].rows)
       /\ (\A i, j \in DOMAIN merged[1].rows :
             merged[1].rows[i] = merged[1].rows[j] => i = j) => UniqueCounties(df)
       /\ "county" \in columns
       /\ columns \subseteq {"county"} \cup TwelveNames
  /\ pc = "no_table" => (merged = None \/ "county" \notin rename(merged[1].columns))

\* ====================================================================
\* Outliers and groups.
\* ====================================================================
\* C23.  On the same table and column every row returned by iqr_outliers
\* is one the bucket classifier labels "Top 25%", and the outlier set is
\* upward closed: with a row, it holds every row whose value is greater
\* than or equal to that row's value.
C23_OutliersOnTop ==
  IqrReturned =>
    /\ \A i \in Range(outliers) :
         /\ i \in Valued
         /\ iqr_q.q1 # None /\ iqr_q.q3 # None
         /\ bucket(df[i].val, Percentile(1), Percentile(3)) = "Top 25%"
         /\ pc = "done" =>
              /\ bucket(df[i].val, q1[1], q3[1]) = "Top 25%"
              /\ Cardinality({k \in DOMAIN df_bar :
                                df_bar[k].county = df[i].county}) = 1
              /\ \A k \in DOMAIN df_bar :
                   df_bar[k].county = df[i].county => df_bar[k].Group = "Top 25%"
         /\ \A j \in Valued : df[j].val >= df[i].val => j \in Range(outliers)

\* The page has finished with an outlier, with a row of the top group that
\* is no outlier, and with a row of the bottom group.
C23_Witness ==
  /\ pc = "done"
  /\ outliers # <<>>
  /\ \E k \in DOMAIN df_bar :
       /\ df_bar[k].Group = "Top 25%"
       /\ \A i \in Range(outliers) : df[i].county # df_bar[k].county
  /\ \E k \in DOMAIN df_bar : df_bar[k].Group = "Bottom 25%"

\* ====================================================================
\* extract_final_answer.
\* ====================================================================
\* The positions of tag in text.
Places(text, tag) == {i \in DOMAIN text : text[i] = tag}

First(S) == CHOOSE i \in S : \A j \in S : i <= j
Last(S) == CHOOSE i \in S : \A j \in S : i >= j

\* text without the blanks at its two ends.
Trimmed(text) ==
  LET solid == {i \in DOMAIN text : text[i] # " "}
  IN  IF solid = {} THEN <<>> ELSE SubSeq(text, First(solid), Last(solid))

\* The text between the first "<final_answer>" and the next
\* "</final_answer>" after it, or the end of the text.
BetweenAnswerTags(text) ==
  LET open  == First(Places(text, OpenAnswer))
      close == {j \in Places(text, CloseAnswer) : j > open}
  IN  SubSeq(text, open + 1, IF close = {} THEN Len(text) ELSE First(close) - 1)

\* The text after the last "</think>".
AfterLastThink(text) ==
  SubSeq(text, Last(Places(text, CloseThink)) + 1, Len(text))

\* The positions inside a closed <think>...</think> block.
InsideThink(text) ==
  {k \in DOMAIN text :
     \E i \in Places(text, OpenThink), j \in Places(text, CloseThink) :
       i < k /\ k < j}

\* The letters that the text has inside closed think blocks only.
ThoughtOnly(text) ==
  {text[k] : k \in InsideThink(text)}
    \ ({text[k] : k \in DOMAIN text \ InsideThink(text)}
         \cup {OpenAnswer, CloseAnswer, OpenThink, CloseThink, " "})

\* C24.  For every response, extract_final_answer returns: when the text
\* contains "<final_answer>", the text between the first "<final_answer>"
\* and the next "</final_answer>" after it (or the end of the text),
\* trimmed; otherwise, when it contains "<think>", the text after the last
\* "</think>", trimmed; otherwise the text unchanged.  When the response
\* contains a closed <think>...</think> block, no text from inside the
\* block is in the answer.
C24_ExtractedAnswer ==
  clean # None =>
    LET text == response[1]
        answer == clean[1]
    IN  /\ Places(text, OpenAnswer) # {} => answer = Trimmed(BetweenAnswerTags(text))
        /\ (Places(text, OpenAnswer) = {} /\ Places(text, OpenThink) # {}
              /\ Places(text, CloseThink) # {}) =>
             answer = Trimmed(AfterLastThink(text))
        /\ (Places(text, OpenAnswer) = {} /\ Places(text, OpenThink) = {}) =>
             answer = text
        /\ \A k \in DOMAIN answer : answer[k] \notin ThoughtOnly(text)

====
